---- MODULE Spec2Model ----
(***************************************************************************)
(* The device association index of an OsinfoOs entity (osinfo_os.c): the   *)
(* list os->priv->deviceLinks, the hash table os->priv->platforms keyed by *)
(* platform id, osinfo_os_add_device, the four query functions and         *)
(* osinfo_os_finalize.                                                     *)
(***************************************************************************)
EXTENDS Naturals, Sequences, FiniteSets

\* Bound on the number of OsinfoDeviceLink objects created in one behaviour.
MaxLinks == 3

\* ------------------------------------------------------------------------
\* The objects callers pass in.  A NULL pointer is the string "NULL"; a NULL
\* GList is the empty sequence; a NULL OsinfoDeviceLink pointer is a result
\* whose null flag is TRUE.
NULL == "NULL"

Devices == {"dev1", "dev2"}

Platforms == {"pX1", "pX2", "pY"}

Filters == {"f1", "f2"}

\* What a caller can pass as the platform, dev and filter arguments: NULL, an
\* object of the right type, or an object of another type.
PlatformArgs == Platforms \cup {NULL, "dev1"}

DevArgs == Devices \cup {NULL, "pY"}

FilterArgs == Filters \cup {NULL}

\* The GObject type checks behind the g_return_val_if_fail guards.
OSINFO_IS_DEVICE(obj) == obj # NULL /\ obj \in Devices

OSINFO_IS_PLATFORM(obj) == obj # NULL /\ obj \in Platforms

OSINFO_IS_FILTER(obj) == obj # NULL /\ obj \in Filters

\* The id of a platform entity: pX1 and pX2 are two objects with the same id.
osinfo_entity_get_id(platform) == IF platform \in {"pX1", "pX2"} THEN "X" ELSE "Y"

\* The filter evaluator, on a device: f1 matches dev1 only, f2 matches dev2 only.
osinfo_filter_matches_device(filter, dev) ==
    \/ filter = "f1" /\ dev = "dev1"
    \/ filter = "f2" /\ dev = "dev2"

\* The filter evaluator, on a device link: the link's own attributes are
\* independent of its target's: f1 matches the links with an even serial
\* number, f2 matches no link.
osinfo_filter_matches_link(filter, link) ==
    filter = "f1" /\ link % 2 = 0

\* ------------------------------------------------------------------------
\* State.
VARIABLES
    deviceLinks,  \* os->priv->deviceLinks: GList of links (sequence of link ids)
    platforms,    \* os->priv->platforms: platform id -> GList of links
    heap,         \* the OsinfoDeviceLink objects: heap[link] = [target, unrefs]
    finalized,    \* TRUE once osinfo_os_finalize has run
    calls,        \* the caller's log of the successful osinfo_os_add_device calls
    lastCall,     \* the last call made on the os and its outcome
    step          \* the position and locals of an osinfo_os_add_device in progress

vars == <<deviceLinks, platforms, heap, finalized, calls, lastCall, step>>

\* The outcome of a call: critical is TRUE when a g_return_val_if_fail guard
\* failed (the invalid-argument outcome), null is TRUE when the returned
\* pointer is NULL, ret holds the returned list's elements or the returned
\* object.
Outcome(op, platform, arg, critical, null, ret) ==
    [op |-> op, platform |-> platform, arg |-> arg,
     critical |-> critical, null |-> null, ret |-> ret]

InvalidArgument(op, platform, arg) == Outcome(op, platform, arg, TRUE, TRUE, <<>>)

\* ------------------------------------------------------------------------
\* GLib's containers.
g_list_append(list, data) == Append(list, data)

g_hash_table_lookup(table, key) ==
    IF key \in DOMAIN table THEN table[key] ELSE <<>>

g_hash_table_lookup_extended(table, key) == key \in DOMAIN table

\* Removes the entry without calling the key and value destroy functions.
g_hash_table_steal(table, key) ==
    [k \in (DOMAIN table) \ {key} |-> table[k]]

\* Inserts or replaces; a replaced value is handed to the value destroy
\* function of the table (osinfo_os_platform_devices_free).
g_hash_table_insert(table, key, value) ==
    [table |-> [k \in (DOMAIN table) \cup {key} |->
                    IF k = key THEN value ELSE table[k]],
     destroyed |-> IF key \in DOMAIN table THEN table[key] ELSE <<>>]

\* g_hash_table_new_full: a table with no entry.
EmptyTable == [k \in {} |-> <<>>]

\* The target device of a link.
osinfo_devicelink_get_target(link) == heap[link].target

\* The number of times link occurs in list.
RECURSIVE Occurrences(_, _)
Occurrences(list, link) ==
    IF list = <<>> THEN 0
    ELSE (IF Head(list) = link THEN 1 ELSE 0) + Occurrences(Tail(list), link)

\* g_list_foreach(list, osinfo_device_link_free, NULL): one g_object_unref
\* per element of the list.
osinfo_device_link_free(h, list) ==
    [link \in DOMAIN h |->
        [h[link] EXCEPT !.unrefs = @ + Occurrences(list, link)]]

\* No osinfo_os_add_device is in progress.
Idle == [pc |-> "idle", platform |-> NULL, dev |-> NULL, link |-> 0,
         found |-> FALSE, origValue |-> <<>>, tmp |-> <<>>]

\* ------------------------------------------------------------------------
\* osinfo_os_init
Init ==
    /\ deviceLinks = <<>>
    /\ platforms = EmptyTable
    /\ heap = <<>>
    /\ finalized = FALSE
    /\ calls = <<>>
    /\ lastCall = Outcome("init", NULL, NULL, FALSE, TRUE, <<>>)
    /\ step = Idle

\* ------------------------------------------------------------------------
\* osinfo_os_add_device

\* Variant of the guards: the type of dev is not checked.
add_device_args_ok_nodev(platform, dev) ==
    platform = NULL \/ OSINFO_IS_PLATFORM(platform)

\* The guards at the top of osinfo_os_add_device.
add_device_args_ok(platform, dev) ==
    /\ platform = NULL \/ OSINFO_IS_PLATFORM(platform)
    /\ OSINFO_IS_DEVICE(dev)

\* osinfo_devicelink_new(dev): a new link object, holding one reference.
osinfo_devicelink_new(h, dev) == Append(h, [target |-> dev, unrefs |-> 0])

\* Variants of the platform branch, each with one slip: the list of an
\* existing entry is not taken over; the link goes to the front of the list;
\* the existing entry is not stolen before the insert.
add_device_platform_overwrite(table, key, link) ==
    LET found == g_hash_table_lookup_extended(table, key)
        stolen == IF found THEN g_hash_table_steal(table, key) ELSE table
    IN g_hash_table_insert(stolen, key, g_list_append(<<>>, link))

add_device_platform_prepend(table, key, link) ==
    LET found == g_hash_table_lookup_extended(table, key)
        stolen == IF found THEN g_hash_table_steal(table, key) ELSE table
        tmp == IF found THEN table[key] ELSE <<>>
    IN g_hash_table_insert(stolen, key, <<link>> \o tmp)

add_device_platform_nosteal(table, key, link) ==
    LET found == g_hash_table_lookup_extended(table, key)
        tmp == IF found THEN table[key] ELSE <<>>
    IN g_hash_table_insert(table, key, g_list_append(tmp, link))

\* The platform branch: look the key up, steal an existing entry and take its
\* list, append the link, insert the list under a copy of the key.  The
\* result is the table and the list the insert destroyed, if any.
add_device_platform(table, key, link) ==
    LET found == g_hash_table_lookup_extended(table, key)
        origValue == table[key]
        stolen == IF found THEN g_hash_table_steal(table, key) ELSE table
        tmp == IF found THEN origValue ELSE <<>>
    IN g_hash_table_insert(stolen, key, g_list_append(tmp, link))

\* Variant of the else branch: the link goes to the front of the list.
add_device_default_prepend(list, link) == <<link>> \o list

\* The else branch: the link goes to the end of os->priv->deviceLinks.
add_device_default(list, link) == g_list_append(list, link)

\* Variant: the append to os->priv->deviceLinks is not under the else.
add_device_deviceLinks_always(list, platform, link) ==
    add_device_default(list, link)

\* The value of os->priv->deviceLinks after the call.
add_device_deviceLinks(list, platform, link) ==
    IF platform # NULL THEN list ELSE add_device_default(list, link)

\* Variant of the key: the platform object itself, not its id.
platform_key_object(platform) == platform

\* The key a platform argument addresses in os->priv->platforms: the id
\* string of the platform; the table compares keys with g_str_equal.
platform_key(platform) == osinfo_entity_get_id(platform)

\* The scope a valid platform argument selects: its id, or NULL.
Scope(platform) ==
    IF platform = NULL THEN NULL ELSE osinfo_entity_get_id(platform)

osinfo_os_add_device ==
    /\ ~finalized
    /\ UNCHANGED step
    /\ \E platform \in PlatformArgs, dev \in DevArgs :
        IF ~add_device_args_ok(platform, dev)
        THEN /\ lastCall' = InvalidArgument("add_device", platform, dev)
             /\ UNCHANGED <<deviceLinks, platforms, heap, finalized, calls>>
        ELSE /\ Len(heap) < MaxLinks
             /\ LET link == Len(heap) + 1
                    created == osinfo_devicelink_new(heap, dev)
                    ins == IF platform # NULL
                           THEN add_device_platform(platforms,
                                    platform_key(platform), link)
                           ELSE [table |-> platforms, destroyed |-> <<>>]
                IN /\ platforms' = ins.table
                   /\ heap' = osinfo_device_link_free(created, ins.destroyed)
                   /\ deviceLinks' = add_device_deviceLinks(deviceLinks, platform, link)
                   /\ calls' = Append(calls, [scope |-> Scope(platform),
                                              dev |-> dev, link |-> link])
                   /\ lastCall' = Outcome("add_device", platform, dev,
                                          FALSE, FALSE, <<link>>)
             /\ UNCHANGED finalized

\* ------------------------------------------------------------------------
\* The queries.

\* The list a query walks: the platform's entry in the table (NULL when the
\* table has none), or os->priv->deviceLinks.
query_list(platform) ==
    IF platform # NULL
    THEN g_hash_table_lookup(platforms, platform_key(platform))
    ELSE deviceLinks

\* Variant of the loop: the walk goes on after a match, so the last link
\* that passes is returned.
RECURSIVE preferred_walk_last(_, _)
preferred_walk_last(tmp, filter) ==
    IF tmp = <<>> THEN <<>>
    ELSE LET link == Head(tmp)
             dev == osinfo_devicelink_get_target(link)
             rest == preferred_walk_last(Tail(tmp), filter)
         IN IF rest # <<>> THEN rest
            ELSE IF filter = NULL \/ osinfo_filter_matches_device(filter, dev)
            THEN <<link>>
            ELSE <<>>

\* The loop of osinfo_os_get_preferred_device_link: the first link of tmp
\* whose target passes, as a one-element sequence, or <<>> for NULL.
RECURSIVE preferred_walk(_, _)
preferred_walk(tmp, filter) ==
    IF tmp = <<>> THEN <<>>
    ELSE LET link == Head(tmp)
             dev == osinfo_devicelink_get_target(link)
         IN IF filter = NULL \/ osinfo_filter_matches_device(filter, dev)
            THEN <<link>>
            ELSE preferred_walk(Tail(tmp), filter)

osinfo_os_get_preferred_device_link_result(platform, filter) ==
    IF ~(platform = NULL \/ OSINFO_IS_PLATFORM(platform))
        THEN InvalidArgument("get_preferred_device_link", platform, filter)
    ELSE IF ~OSINFO_IS_FILTER(filter)
        THEN InvalidArgument("get_preferred_device_link", platform, filter)
    ELSE LET found == preferred_walk(query_list(platform), filter)
         IN Outcome("get_preferred_device_link", platform, filter,
                    FALSE, found = <<>>, found)

\* Variant: the filter is not handed on to the link lookup, so the target of
\* the first link of the list is returned.
osinfo_os_get_preferred_device_result_nofilter(platform, filter) ==
    IF ~(platform = NULL \/ OSINFO_IS_PLATFORM(platform))
        THEN InvalidArgument("get_preferred_device", platform, filter)
    ELSE IF ~OSINFO_IS_FILTER(filter)
        THEN InvalidArgument("get_preferred_device", platform, filter)
    ELSE LET found == preferred_walk(query_list(platform), NULL)
         IN IF found # <<>>
            THEN Outcome("get_preferred_device", platform, filter, FALSE, FALSE,
                         <<osinfo_devicelink_get_target(found[1])>>)
            ELSE Outcome("get_preferred_device", platform, filter, FALSE, TRUE, <<>>)

osinfo_os_get_preferred_device_result(platform, filter) ==
    IF ~(platform = NULL \/ OSINFO_IS_PLATFORM(platform))
        THEN InvalidArgument("get_preferred_device", platform, filter)
    ELSE IF ~OSINFO_IS_FILTER(filter)
        THEN InvalidArgument("get_preferred_device", platform, filter)
    ELSE LET link == osinfo_os_get_preferred_device_link_result(platform, filter)
         IN IF ~link.null
            THEN Outcome("get_preferred_device", platform, filter, FALSE, FALSE,
                         <<osinfo_devicelink_get_target(link.ret[1])>>)
            ELSE Outcome("get_preferred_device", platform, filter, FALSE, TRUE, <<>>)

\* The loop of osinfo_os_get_devices: the targets that pass, in list order.
RECURSIVE devices_walk(_, _)
devices_walk(tmp, filter) ==
    IF tmp = <<>> THEN <<>>
    ELSE LET link == Head(tmp)
             dev == osinfo_devicelink_get_target(link)
         IN (IF filter = NULL \/ osinfo_filter_matches_device(filter, dev)
             THEN <<dev>> ELSE <<>>) \o devices_walk(Tail(tmp), filter)

osinfo_os_get_devices_result(platform, filter) ==
    IF ~(platform = NULL \/ OSINFO_IS_PLATFORM(platform))
        THEN InvalidArgument("get_devices", platform, filter)
    ELSE IF ~(filter = NULL \/ OSINFO_IS_FILTER(filter))
        THEN InvalidArgument("get_devices", platform, filter)
    ELSE Outcome("get_devices", platform, filter, FALSE, FALSE,
                 devices_walk(query_list(platform), filter))

\* Variant of the loop: the filter is matched against the link's target, as
\* in osinfo_os_get_devices.
RECURSIVE device_links_walk_target(_, _)
device_links_walk_target(tmp, filter) ==
    IF tmp = <<>> THEN <<>>
    ELSE LET link == Head(tmp)
             dev == osinfo_devicelink_get_target(link)
         IN (IF filter = NULL \/ osinfo_filter_matches_device(filter, dev)
             THEN <<link>> ELSE <<>>) \o device_links_walk_target(Tail(tmp), filter)

\* The loop of osinfo_os_get_device_links: the links that pass, in list order.
RECURSIVE device_links_walk(_, _)
device_links_walk(tmp, filter) ==
    IF tmp = <<>> THEN <<>>
    ELSE LET link == Head(tmp)
         IN (IF filter = NULL \/ osinfo_filter_matches_link(filter, link)
             THEN <<link>> ELSE <<>>) \o device_links_walk(Tail(tmp), filter)

osinfo_os_get_device_links_result(platform, filter) ==
    IF ~(platform = NULL \/ OSINFO_IS_PLATFORM(platform))
        THEN InvalidArgument("get_device_links", platform, filter)
    ELSE IF ~(filter = NULL \/ OSINFO_IS_FILTER(filter))
        THEN InvalidArgument("get_device_links", platform, filter)
    ELSE Outcome("get_device_links", platform, filter, FALSE, FALSE,
                 device_links_walk(query_list(platform), filter))

\* Variant: a lookup that does not find the key enters it with a NULL list.
query_platforms_creates(table, outcome) ==
    IF outcome.critical \/ outcome.platform = NULL THEN table
    ELSE [k \in (DOMAIN table) \cup {platform_key(outcome.platform)} |->
              IF k \in DOMAIN table THEN table[k] ELSE <<>>]

\* os->priv->platforms after a query with this outcome: the query's only
\* access to the table is g_hash_table_lookup, which changes nothing, found
\* or not.
query_platforms(table, outcome) == table

osinfo_os_get_preferred_device ==
    /\ ~finalized
    /\ \E platform \in PlatformArgs, filter \in FilterArgs :
        lastCall' = osinfo_os_get_preferred_device_result(platform, filter)
    /\ platforms' = query_platforms(platforms, lastCall')
    /\ UNCHANGED <<deviceLinks, heap, finalized, calls, step>>

osinfo_os_get_preferred_device_link ==
    /\ ~finalized
    /\ \E platform \in PlatformArgs, filter \in FilterArgs :
        lastCall' = osinfo_os_get_preferred_device_link_result(platform, filter)
    /\ platforms' = query_platforms(platforms, lastCall')
    /\ UNCHANGED <<deviceLinks, heap, finalized, calls, step>>

osinfo_os_get_devices ==
    /\ ~finalized
    /\ \E platform \in PlatformArgs, filter \in FilterArgs :
        lastCall' = osinfo_os_get_devices_result(platform, filter)
    /\ platforms' = query_platforms(platforms, lastCall')
    /\ UNCHANGED <<deviceLinks, heap, finalized, calls, step>>

osinfo_os_get_device_links ==
    /\ ~finalized
    /\ \E platform \in PlatformArgs, filter \in FilterArgs :
        lastCall' = osinfo_os_get_device_links_result(platform, filter)
    /\ platforms' = query_platforms(platforms, lastCall')
    /\ UNCHANGED <<deviceLinks, heap, finalized, calls, step>>

\* ------------------------------------------------------------------------
\* osinfo_os_finalize

\* g_hash_table_unref of the last reference: every value of the table goes
\* to osinfo_os_platform_devices_free, which unrefs its links and frees it.
RECURSIVE platform_devices_free_all(_, _)
platform_devices_free_all(h, table) ==
    IF DOMAIN table = {} THEN h
    ELSE LET key == CHOOSE k \in DOMAIN table : TRUE
         IN platform_devices_free_all(osinfo_device_link_free(h, table[key]),
                                      g_hash_table_steal(table, key))

osinfo_os_finalize ==
    /\ ~finalized
    /\ heap' = platform_devices_free_all(
                   osinfo_device_link_free(heap, deviceLinks), platforms)
    /\ deviceLinks' = <<>>
    /\ platforms' = EmptyTable
    /\ finalized' = TRUE
    /\ lastCall' = Outcome("finalize", NULL, NULL, FALSE, TRUE, <<>>)
    /\ UNCHANGED <<calls, step>>

Next ==
    \/ osinfo_os_add_device
    \/ osinfo_os_get_preferred_device
    \/ osinfo_os_get_preferred_device_link
    \/ osinfo_os_get_devices
    \/ osinfo_os_get_device_links
    \/ osinfo_os_finalize

Spec == Init /\ [][Next]_vars

\* ------------------------------------------------------------------------
\* osinfo_os_add_device statement by statement: the states between its
\* accesses to the table and the lists.

\* Variant of the steal: the entry stays in the table, with a NULL list,
\* while its list is extended.
add_device_steal_keeps_key(table, key) ==
    [k \in DOMAIN table |-> IF k = key THEN <<>> ELSE table[k]]

\* The table after g_hash_table_steal of the platform's entry.
add_device_steal(table, key) == g_hash_table_steal(table, key)

\* The guards and osinfo_devicelink_new.
add_device_enter ==
    /\ ~finalized
    /\ step.pc = "idle"
    /\ \E platform \in PlatformArgs, dev \in DevArgs :
        IF ~add_device_args_ok(platform, dev)
        THEN /\ lastCall' = InvalidArgument("add_device", platform, dev)
             /\ UNCHANGED <<heap, step>>
        ELSE /\ Len(heap) < MaxLinks
             /\ heap' = osinfo_devicelink_new(heap, dev)
             /\ step' = [Idle EXCEPT
                            !.pc = IF platform # NULL THEN "lookup" ELSE "default",
                            !.platform = platform,
                            !.dev = dev,
                            !.link = Len(heap) + 1]
             /\ UNCHANGED lastCall
    /\ UNCHANGED <<deviceLinks, platforms, finalized, calls>>

\* g_hash_table_lookup_extended
add_device_lookup ==
    /\ step.pc = "lookup"
    /\ LET key == platform_key(step.platform)
           found == g_hash_table_lookup_extended(platforms, key)
       IN step' = [step EXCEPT
                      !.pc = IF found THEN "steal" ELSE "append",
                      !.found = found,
                      !.origValue = g_hash_table_lookup(platforms, key)]
    /\ UNCHANGED <<deviceLinks, platforms, heap, finalized, calls, lastCall>>

\* g_hash_table_steal; g_free(origKey); tmp = origValue
add_device_stolen ==
    /\ step.pc = "steal"
    /\ platforms' = add_device_steal(platforms, platform_key(step.platform))
    /\ step' = [step EXCEPT !.pc = "append", !.tmp = step.origValue]
    /\ UNCHANGED <<deviceLinks, heap, finalized, calls, lastCall>>

\* tmp = g_list_append(tmp, link)
add_device_append ==
    /\ step.pc = "append"
    /\ step' = [step EXCEPT !.pc = "insert",
                            !.tmp = g_list_append(step.tmp, step.link)]
    /\ UNCHANGED <<deviceLinks, platforms, heap, finalized, calls, lastCall>>

\* g_hash_table_insert(os->priv->platforms, g_strdup(id), tmp)
add_device_insert ==
    /\ step.pc = "insert"
    /\ LET ins == g_hash_table_insert(platforms, platform_key(step.platform),
                                      step.tmp)
       IN /\ platforms' = ins.table
          /\ heap' = osinfo_device_link_free(heap, ins.destroyed)
    /\ step' = [step EXCEPT !.pc = "return"]
    /\ UNCHANGED <<deviceLinks, finalized, calls, lastCall>>

\* os->priv->deviceLinks = g_list_append(os->priv->deviceLinks, link)
add_device_else ==
    /\ step.pc = "default"
    /\ deviceLinks' = add_device_default(deviceLinks, step.link)
    /\ step' = [step EXCEPT !.pc = "return"]
    /\ UNCHANGED <<platforms, heap, finalized, calls, lastCall>>

\* return link
add_device_return ==
    /\ step.pc = "return"
    /\ calls' = Append(calls, [scope |-> Scope(step.platform),
                               dev |-> step.dev, link |-> step.link])
    /\ lastCall' = Outcome("add_device", step.platform, step.dev,
                           FALSE, FALSE, <<step.link>>)
    /\ step' = Idle
    /\ UNCHANGED <<deviceLinks, platforms, heap, finalized>>

\* A query or the teardown between two calls of osinfo_os_add_device: the
\* code is single-threaded, so none runs while a call is in progress.
finalize_between_calls == step.pc = "idle" /\ osinfo_os_finalize

get_device_links_between_calls == step.pc = "idle" /\ osinfo_os_get_device_links

NextSteps ==
    \/ add_device_enter
    \/ add_device_lookup
    \/ add_device_stolen
    \/ add_device_append
    \/ add_device_insert
    \/ add_device_else
    \/ add_device_return
    \/ get_device_links_between_calls
    \/ finalize_between_calls

SpecSteps == Init /\ [][NextSteps]_vars

\* ------------------------------------------------------------------------
\* What the caller's log says about a scope (NULL, or a platform id).

PlatformIds == {osinfo_entity_get_id(p) : p \in Platforms}

\* The logged calls of a scope, in call order.
CallsIn(scope) == SelectSeq(calls, LAMBDA c : c.scope = scope)

\* The devices of the logged calls of a scope, in call order.
CallDevices(scope) ==
    [i \in 1..Len(CallsIn(scope)) |-> CallsIn(scope)[i].dev]

\* The links the logged calls of a scope returned, in call order.
CallLinks(scope) ==
    [i \in 1..Len(CallsIn(scope)) |-> CallsIn(scope)[i].link]

\* lastCall is the outcome of a call of op with these arguments.
LastIs(op, platform, arg) ==
    /\ lastCall.op = op
    /\ lastCall.platform = platform
    /\ lastCall.arg = arg

\* ------------------------------------------------------------------------
\* C1: after any sequence of add_device calls, get_devices(no platform, no
\* filter) returns exactly the devices of the calls that had no platform, in
\* call order, one entry per call.
C1_DefaultQueryInCallOrder ==
    ~finalized =>
        /\ osinfo_os_get_devices_result(NULL, NULL) =
               Outcome("get_devices", NULL, NULL, FALSE, FALSE, CallDevices(NULL))
        /\ LastIs("get_devices", NULL, NULL) =>
               /\ ~lastCall.critical /\ ~lastCall.null
               /\ lastCall.ret = CallDevices(NULL)

\* C1 witness: dev2, then a platform add, then dev2 again and a query that
\* returns dev2 twice.
C1_Witness ==
    /\ LastIs("get_devices", NULL, NULL)
    /\ lastCall.ret = <<"dev2", "dev2">>
    /\ Len(calls) = 3
    /\ calls[2].scope = "X"

\* C1 witness of the order: dev2 was added before dev1.
C1_WitnessOrder ==
    /\ LastIs("get_devices", NULL, NULL)
    /\ lastCall.ret = <<"dev2", "dev1">>

\* C2: add_device under a platform key that already has a list is additive:
\* the list before the call is a prefix of the list after it, with the new
\* link as the single extra last element; and get_devices(p, no filter)
\* returns the devices of all the calls made under p's id, in call order.
C2_PlatformAddIsAdditive ==
    /\ [][(/\ lastCall'.op = "add_device"
           /\ ~lastCall'.critical
           /\ lastCall'.platform # NULL
           /\ osinfo_entity_get_id(lastCall'.platform) \in DOMAIN platforms)
          => platforms'[osinfo_entity_get_id(lastCall'.platform)] =
                 Append(platforms[osinfo_entity_get_id(lastCall'.platform)],
                        lastCall'.ret[1])]_vars
    /\ [](~finalized =>
            \A p \in Platforms :
                osinfo_os_get_devices_result(p, NULL).ret =
                    CallDevices(osinfo_entity_get_id(p)))

\* C2 witness: three adds under one platform id, then the query.
C2_Witness ==
    /\ LastIs("get_devices", "pY", NULL)
    /\ lastCall.ret = <<"dev1", "dev2", "dev1">>
    /\ Len(platforms["Y"]) = 3

\* C3: an add_device under platform A leaves get_devices(B, no filter), for
\* every platform B with another id, and get_devices(no platform, no
\* filter) as they were; an add_device with no platform leaves
\* get_devices(p, no filter) as it was for every platform p.  After
\* add_device(NULL, dev1); add_device(X, dev2) the three queries return
\* [dev1], [dev2] and [].
C3_PlatformIsolation ==
    /\ [][(lastCall'.op = "add_device" /\ ~lastCall'.critical) =>
            /\ \A p \in Platforms :
                  Scope(p) # Scope(lastCall'.platform) =>
                     osinfo_os_get_devices_result(p, NULL)' =
                         osinfo_os_get_devices_result(p, NULL)
            /\ lastCall'.platform # NULL =>
                  osinfo_os_get_devices_result(NULL, NULL)' =
                      osinfo_os_get_devices_result(NULL, NULL)]_vars
    /\ []((/\ ~finalized
           /\ calls = << [scope |-> NULL, dev |-> "dev1", link |-> 1],
                         [scope |-> "X", dev |-> "dev2", link |-> 2] >>)
          => /\ osinfo_os_get_devices_result(NULL, NULL).ret = <<"dev1">>
             /\ osinfo_os_get_devices_result("pX1", NULL).ret = <<"dev2">>
             /\ osinfo_os_get_devices_result("pY", NULL).ret = <<>>)

\* C3 witness: a platform add made while the default list and another
\* platform's list were non-empty.
C3_Witness ==
    /\ lastCall.op = "add_device"
    /\ lastCall.platform = "pX2"
    /\ ~lastCall.critical
    /\ deviceLinks # <<>>
    /\ "Y" \in DOMAIN platforms

\* C3 witness of the scenario.
C3_WitnessScenario ==
    /\ calls = << [scope |-> NULL, dev |-> "dev1", link |-> 1],
                  [scope |-> "X", dev |-> "dev2", link |-> 2] >>
    /\ LastIs("get_devices", "pY", NULL)
    /\ lastCall.ret = <<>>

\* The positions of the logged calls of a scope whose device passes filter.
MatchingCalls(scope, filter) ==
    {i \in 1..Len(calls) :
        /\ calls[i].scope = scope
        /\ osinfo_filter_matches_device(filter, calls[i].dev)}

Min(S) == CHOOSE i \in S : \A j \in S : i <= j

\* C4: for every scope and every filter, get_preferred_device_link returns
\* the link of the earliest call of that scope whose device matches the
\* filter, and NULL exactly when no call of the scope has a matching device.
C4_PreferredIsEarliestMatch ==
    ~finalized =>
        \A platform \in Platforms \cup {NULL}, filter \in Filters :
            LET r == osinfo_os_get_preferred_device_link_result(platform, filter)
                m == MatchingCalls(Scope(platform), filter)
            IN /\ ~r.critical
               /\ r.null <=> m = {}
               /\ m # {} => r.ret = <<calls[Min(m)].link>>
               /\ LastIs("get_preferred_device_link", platform, filter)
                     => lastCall = r

\* C4 witness: the scope holds dev1, dev2, dev2 and the filter matches
\* dev2: the second link is returned, not the first or the third.
C4_Witness ==
    /\ LastIs("get_preferred_device_link", "pX1", "f2")
    /\ CallDevices("X") = <<"dev1", "dev2", "dev2">>
    /\ lastCall.ret = <<2>>

\* C4 witness of the absent result: the scope has links, none matches.
C4_WitnessAbsent ==
    /\ LastIs("get_preferred_device_link", NULL, "f1")
    /\ CallDevices(NULL) = <<"dev2", "dev2">>
    /\ lastCall.null

\* C5: the filter of get_preferred_device_link and get_preferred_device is
\* optional: a call with no filter, on a scope whose list is non-empty,
\* returns the first link of the scope, respectively its target device, and
\* is not an invalid-argument outcome.
C5_PreferredFilterOptional ==
    (/\ lastCall.op \in {"get_preferred_device_link", "get_preferred_device"}
     /\ lastCall.platform \in Platforms \cup {NULL}
     /\ lastCall.arg = NULL
     /\ CallsIn(Scope(lastCall.platform)) # <<>>)
    => LET first == CallsIn(Scope(lastCall.platform))[1]
       IN /\ ~lastCall.critical
          /\ ~lastCall.null
          /\ lastCall.op = "get_preferred_device_link" => lastCall.ret = <<first.link>>
          /\ lastCall.op = "get_preferred_device" => lastCall.ret = <<first.dev>>

\* C6: a query on a valid platform whose id has no association, whatever was
\* added to other scopes and whatever the filter argument, is not an error:
\* get_devices and get_device_links return an empty list, and
\* get_preferred_device_link and get_preferred_device return NULL, without
\* the invalid-argument outcome.
C6_EmptyPlatformIsNotAnError ==
    (/\ lastCall.op \in {"get_devices", "get_device_links",
                         "get_preferred_device_link", "get_preferred_device"}
     /\ lastCall.platform \in Platforms
     /\ lastCall.arg \in FilterArgs
     /\ CallsIn(Scope(lastCall.platform)) = <<>>)
    => /\ ~lastCall.critical
       /\ lastCall.ret = <<>>
       /\ lastCall.op \in {"get_devices", "get_device_links"} => ~lastCall.null
       /\ lastCall.op \in {"get_preferred_device_link", "get_preferred_device"}
             => lastCall.null

\* C7: for every scope, get_device_links(scope, no filter) returns exactly
\* the links the add_device calls of that scope returned, the same objects
\* in call order, also after later adds on the same platform id.
C7_LinksRoundTrip ==
    ~finalized =>
        /\ \A platform \in Platforms \cup {NULL} :
              LET r == osinfo_os_get_device_links_result(platform, NULL)
              IN /\ ~r.critical /\ ~r.null
                 /\ r.ret = CallLinks(Scope(platform))
                 /\ LastIs("get_device_links", platform, NULL) => lastCall = r
        /\ (lastCall.op = "add_device" /\ ~lastCall.critical) =>
              /\ ~lastCall.null
              /\ lastCall.ret = <<calls[Len(calls)].link>>
              /\ \A i \in 1..(Len(calls) - 1) : calls[i].link # lastCall.ret[1]

\* C7 witness: the platform id X got its first link, another scope got one,
\* X got a second one through the steal and reinsert path, and the query on
\* X returns the first and the third link created.
C7_Witness ==
    /\ LastIs("get_device_links", "pX2", NULL)
    /\ lastCall.ret = <<1, 3>>
    /\ calls[2].scope = "Y"

\* C8: every link add_device created is unreferenced by the index exactly
\* once, at osinfo_os_finalize: never before it (in particular not on the
\* steal and reinsert path), and once each after it.
C8_LinksReleasedOnceAtFinalize ==
    /\ Len(heap) = Len(calls)
    /\ \A link \in 1..Len(heap) :
          heap[link].unrefs = IF finalized THEN 1 ELSE 0

\* C8 witness: finalize ran on an os with a link in the default list, and
\* two links under one platform id.
C8_Witness ==
    /\ finalized
    /\ Len(CallsIn(NULL)) = 1
    /\ Len(CallsIn("X")) = 2
    /\ \A link \in 1..3 : heap[link].unrefs = 1

\* C8 witness before finalize: the steal and reinsert path was taken.
C8_WitnessSteal ==
    /\ ~finalized
    /\ Len(CallsIn("X")) = 3

\* C9: an add_device whose dev is NULL or not a device, or whose platform is
\* neither NULL nor a platform, returns NULL with the invalid-argument
\* outcome, creates no link and leaves the default list and the platform
\* table as they were.
C9_BadArgumentsChangeNothing ==
    [][(/\ lastCall'.op = "add_device"
        /\ \/ lastCall'.arg \notin Devices
           \/ lastCall'.platform \notin Platforms \cup {NULL})
       => /\ lastCall'.critical
          /\ lastCall'.null
          /\ UNCHANGED <<deviceLinks, platforms, heap, calls>>]_vars

\* C9 witness: a platform object was passed as dev, with a valid platform,
\* on an index whose default list and platform table are not empty.
C9_Witness ==
    /\ LastIs("add_device", "pX1", "pY")
    /\ lastCall.critical
    /\ deviceLinks # <<>>
    /\ "X" \in DOMAIN platforms

\* C9 witness: a device was passed as platform.
C9_WitnessBadPlatform ==
    /\ LastIs("add_device", "dev1", "dev2")
    /\ lastCall.critical
    /\ Len(heap) < MaxLinks

\* The number of links stored in the lists of the table.
RECURSIVE StoredInTable(_)
StoredInTable(table) ==
    IF DOMAIN table = {} THEN 0
    ELSE LET key == CHOOSE k \in DOMAIN table : TRUE
         IN Len(table[key]) + StoredInTable(g_hash_table_steal(table, key))

\* C10: each link a successful add_device created is stored exactly once,
\* in exactly one list: in the default list if and only if the call had no
\* platform, otherwise only in the list of the call's platform id; the
\* number of stored links is the number of successful calls.
C10_StoredOnceInOneList ==
    ~finalized =>
        /\ \A i \in 1..Len(calls) :
              /\ Occurrences(deviceLinks, calls[i].link) =
                     (IF calls[i].scope = NULL THEN 1 ELSE 0)
              /\ \A key \in PlatformIds :
                     Occurrences(g_hash_table_lookup(platforms, key), calls[i].link) =
                         (IF calls[i].scope = key THEN 1 ELSE 0)
        /\ DOMAIN platforms \subseteq PlatformIds
        /\ Len(deviceLinks) + StoredInTable(platforms) = Len(calls)

\* C10 witness: links in the default list and in the lists of two platform
\* ids.
C10_Witness ==
    /\ ~finalized
    /\ Len(deviceLinks) = 1
    /\ DOMAIN platforms = {"X", "Y"}
    /\ lastCall.op = "add_device"

\* C11: for every scope and every supplied filter, get_preferred_device
\* returns the target of the link get_preferred_device_link returns, which
\* is the first element of what get_devices returns; it returns NULL exactly
\* when get_devices returns an empty list.  After add_device(NULL, dev1);
\* add_device(NULL, dev2), with the filter matching dev2 only, the link is
\* the one wrapping dev2 and the device is dev2.
C11_PreferredDeviceAgrees ==
    ~finalized =>
        /\ \A platform \in Platforms \cup {NULL}, filter \in Filters :
              LET d == osinfo_os_get_preferred_device_result(platform, filter)
                  l == osinfo_os_get_preferred_device_link_result(platform, filter)
                  q == osinfo_os_get_devices_result(platform, filter)
              IN /\ ~d.critical /\ ~l.critical /\ ~q.critical
                 /\ d.null <=> l.null
                 /\ d.null <=> q.ret = <<>>
                 /\ ~l.null =>
                       /\ d.ret = <<heap[l.ret[1]].target>>
                       /\ d.ret[1] = q.ret[1]
                 /\ LastIs("get_preferred_device", platform, filter) => lastCall = d
        /\ calls = << [scope |-> NULL, dev |-> "dev1", link |-> 1],
                      [scope |-> NULL, dev |-> "dev2", link |-> 2] >>
           => /\ osinfo_os_get_preferred_device_link_result(NULL, "f2").ret = <<2>>
              /\ osinfo_os_get_preferred_device_result(NULL, "f2").ret = <<"dev2">>

\* C11 witness: the scenario, with the call made.
C11_Witness ==
    /\ calls = << [scope |-> NULL, dev |-> "dev1", link |-> 1],
                  [scope |-> NULL, dev |-> "dev2", link |-> 2] >>
    /\ LastIs("get_preferred_device", NULL, "f2")
    /\ lastCall.ret = <<"dev2">>

\* C11 witness of the absent result on a scope that has links.
C11_WitnessAbsent ==
    /\ LastIs("get_preferred_device", "pX1", "f1")
    /\ CallDevices("X") = <<"dev2", "dev2">>
    /\ lastCall.null /\ ~lastCall.critical

\* C12: the table is keyed by the platform's id string, not by the platform
\* object: its keys are exactly the ids add_device was called with, an
\* add_device on an id that has an entry adds no entry, and two platform
\* objects with the same id address the same list: an add_device through
\* one of them extends what get_devices returns through each of them.
C12_KeyedByPlatformId ==
    /\ [](~finalized =>
            /\ DOMAIN platforms =
                   {calls[i].scope : i \in 1..Len(calls)} \ {NULL}
            /\ \A p1 \in Platforms, p2 \in Platforms :
                  osinfo_entity_get_id(p1) = osinfo_entity_get_id(p2) =>
                     osinfo_os_get_devices_result(p1, NULL).ret =
                         osinfo_os_get_devices_result(p2, NULL).ret)
    /\ [][(/\ lastCall'.op = "add_device"
           /\ ~lastCall'.critical
           /\ lastCall'.platform # NULL)
          => /\ \A p \in Platforms :
                   osinfo_entity_get_id(p) = osinfo_entity_get_id(lastCall'.platform) =>
                      osinfo_os_get_devices_result(p, NULL)'.ret =
                          Append(osinfo_os_get_devices_result(p, NULL).ret,
                                 lastCall'.arg)
             /\ osinfo_entity_get_id(lastCall'.platform) \in DOMAIN platforms =>
                   DOMAIN platforms' = DOMAIN platforms]_vars

\* C12 witness: a device was added under id X, a second one through the
\* object pX2, and get_devices through pX1 returns both.
C12_Witness ==
    /\ lastCall = Outcome("add_device", "pX2", "dev2", FALSE, FALSE, <<2>>)
    /\ calls[1] = [scope |-> "X", dev |-> "dev1", link |-> 1]
    /\ osinfo_os_get_devices_result("pX1", NULL).ret = <<"dev1", "dev2">>
    /\ DOMAIN platforms = {"X"}

\* The logged calls of a scope whose device passes the filter argument.
CallsDevicePasses(scope, filter) ==
    SelectSeq(CallsIn(scope),
              LAMBDA c : filter = NULL \/ osinfo_filter_matches_device(filter, c.dev))

\* The logged calls of a scope whose link passes the filter argument.
CallsLinkPasses(scope, filter) ==
    SelectSeq(CallsIn(scope),
              LAMBDA c : filter = NULL \/ osinfo_filter_matches_link(filter, c.link))

\* C13: get_devices(scope, f) returns, in call order, the target device of
\* exactly the links of the scope whose target device passes f;
\* get_device_links(scope, f) returns, in call order, exactly the links of
\* the scope that pass f themselves, whether or not their target passes;
\* with no filter both return one element per link of the scope.
C13_FilterOnDeviceVersusLink ==
    ~finalized =>
        \A platform \in Platforms \cup {NULL}, filter \in FilterArgs :
            LET q == osinfo_os_get_devices_result(platform, filter)
                l == osinfo_os_get_device_links_result(platform, filter)
                qc == CallsDevicePasses(Scope(platform), filter)
                lc == CallsLinkPasses(Scope(platform), filter)
            IN /\ ~q.critical /\ ~q.null
               /\ q.ret = [i \in 1..Len(qc) |-> qc[i].dev]
               /\ ~l.critical /\ ~l.null
               /\ l.ret = [i \in 1..Len(lc) |-> lc[i].link]
               /\ filter = NULL =>
                     /\ Len(q.ret) = Len(CallsIn(Scope(platform)))
                     /\ Len(l.ret) = Len(CallsIn(Scope(platform)))
               /\ LastIs("get_devices", platform, filter) => lastCall = q
               /\ LastIs("get_device_links", platform, filter) => lastCall = l

\* C13 witness: under one filter get_device_links returns the second link,
\* whose target does not pass the filter, and not the first, whose target
\* does.
C13_Witness ==
    /\ LastIs("get_device_links", NULL, "f1")
    /\ lastCall.ret = <<2>>
    /\ CallDevices(NULL) = <<"dev1", "dev2">>
    /\ osinfo_os_get_devices_result(NULL, "f1").ret = <<"dev1">>

QueryOps == {"get_devices", "get_device_links",
             "get_preferred_device_link", "get_preferred_device"}

\* The outcome of the query op with these arguments in the current state.
QueryResult(op, platform, filter) ==
    CASE op = "get_devices" -> osinfo_os_get_devices_result(platform, filter)
      [] op = "get_device_links" -> osinfo_os_get_device_links_result(platform, filter)
      [] op = "get_preferred_device_link" ->
             osinfo_os_get_preferred_device_link_result(platform, filter)
      [] op = "get_preferred_device" ->
             osinfo_os_get_preferred_device_result(platform, filter)

C15_NoKeyWithEmptyList ==
    /\ \A key \in DOMAIN platforms : platforms[key] # <<>>
    /\ (step.pc = "idle"
            /\ lastCall.op = "get_device_links" /\ ~lastCall.critical
            /\ lastCall.platform # NULL /\ lastCall.arg = NULL
            /\ platform_key(lastCall.platform) \in DOMAIN platforms)
       => lastCall.ret # <<>>

\* C15 witness: between the steal and the reinsert of an add on an id that
\* had an entry: the key is absent from the table, another key is present.
C15_Witness ==
    /\ step.pc = "insert"
    /\ step.found
    /\ Len(step.tmp) = 2
    /\ platform_key(step.platform) \notin DOMAIN platforms
    /\ DOMAIN platforms # {}

====
